---- MODULE Spec2Model ----
(***************************************************************************)
(* Staged parameter collection of the satellite assistant: the stage       *)
(* controller (staged_parameter_clarification_node.py), the uncertainty    *)
(* gate (uncertainty_calculator.py), the parts of the enhanced             *)
(* clarification node the controller calls with its response parser, and  *)
(* the task-boundary reset of the streaming workflow                       *)
(* (workflow_streaming.py), with its save_state and load_state.  Next to   *)
(* the conversation stand the StreamingContentBuffer of the plan           *)
(* generation (buffered_streaming_planning_nodes.py) and the node loop of  *)
(* the satellite crawler (crawler_workflow.py, nodes.py).                  *)
(*                                                                         *)
(* Scores are kept in integer tenths (0.2 is 2, the threshold 0.5 is 5).   *)
(* Parameter values are strings; the value of a key that is not in the     *)
(* dictionary is Absent, "" is the empty (falsy) string and " " a string   *)
(* of whitespace only.  The values the response parser handles are         *)
(* sequences of characters, written in their pinyin reading.               *)
(* The parameter configuration is the one loaded from                      *)
(* data/constellation_parameters.json and is taken to declare every key    *)
(* the staged node can ask about (ConfiguredParams).                       *)
(***************************************************************************)
EXTENDS Integers, Sequences, FiniteSets, TLC

VARIABLES
    parameter_collection_stage,   \* WorkflowState.parameter_collection_stage
    extracted_parameters,         \* state.metadata["extracted_parameters"]
    stage_retry_count,            \* WorkflowState.stage_retry_count (missing key = 0)
    pending_questions,            \* state.metadata["pending_questions"], as the list of parameter_key
    awaiting_clarification,       \* state.metadata["awaiting_clarification"]
    parameter_collection_history, \* the stages that have a record in parameter_collection_history
    clarification_completed,      \* state.metadata["clarification_completed"]
    clarification_skipped,        \* state.metadata["clarification_skipped"]
    main_plan,                    \* WorkflowState.main_plan is not None
    intent,                       \* state.metadata["intent"]
    awaiting_intent_confirmation, \* WorkflowState.awaiting_intent_confirmation
    pending_intent,               \* WorkflowState.pending_intent
    intent_confirmed,             \* WorkflowState.intent_confirmed
    uncertainty_results,          \* uncertainty_results of the last scoring of the turn
    parse_result,                 \* the keys of parsed_params and skip_remaining of the turn's reply
    raised,                       \* the turn's handler ended with an exception
    reset_done,                   \* the turn performed the task-boundary reset
    last_call,                    \* the node function the turn called: "P", "R" or "none"
    skip_phrase_sent,             \* history: a message of the task was a skip phrase
    fn_in,                        \* argument of the pure function under check
    fn_out,                       \* its result
    content_buffer,               \* the StreamingContentBuffer of the generation request
    request,                      \* the call of call_deepseek_streaming_api_buffered
    crawl_job                     \* the CrawlJob and the CrawlerState of its run

vars == <<parameter_collection_stage, extracted_parameters, stage_retry_count,
          pending_questions, awaiting_clarification, parameter_collection_history,
          clarification_completed, clarification_skipped, main_plan, intent,
          awaiting_intent_confirmation, pending_intent, intent_confirmed,
          uncertainty_results, parse_result, raised, reset_done, last_call,
          skip_phrase_sent, fn_in, fn_out, content_buffer, request, crawl_job>>

stream_vars == <<content_buffer, request>>

---------------------------------------------------------------------------
(* Stages and parameters                                                   *)

Absent == "<absent>"
None == "None"

COLLECTION_STAGES ==
    [purpose        |-> [params |-> <<"monitoring_target">>,
                         required |-> TRUE, max_retries |-> 2],
     time           |-> [params |-> <<"observation_frequency", "monitoring_period">>,
                         required |-> TRUE, max_retries |-> 2],
     location_area  |-> [params |-> <<"observation_area">>,
                         required |-> TRUE, max_retries |-> 2],
     location_range |-> [params |-> <<"coverage_range">>,
                         required |-> TRUE, max_retries |-> 2],
     technical      |-> [params |-> <<"spatial_resolution", "spectral_bands",
                                      "analysis_requirements", "output_format",
                                      "accuracy_requirements">>,
                         required |-> FALSE, max_retries |-> 1]]

stage_order == <<"purpose", "time", "location_area", "location_range", "technical">>

CollectingStages == DOMAIN COLLECTION_STAGES

Stages == {"not_started", "completed"} \cup CollectingStages

Range(seq) == {seq[i] : i \in DOMAIN seq}

SelectNotIn(seq, S) == SelectSeq(seq, LAMBDA x : x \notin S)

MandatoryParams == {"monitoring_target", "observation_frequency", "monitoring_period",
                    "observation_area", "coverage_range"}

DeclaredTechnicalParams == Range(COLLECTION_STAGES["technical"].params)

\* keys that _get_relevant_technical_params_for_stage can add beyond the declared ones
TargetSpecificParams == {"monitoring_season", "data_processing_level",
                         "time_criticality", "weather_dependency"}

AllParams == MandatoryParams \cup DeclaredTechnicalParams \cup TargetSpecificParams

\* the keys the loaded parameter configuration declares
ConfiguredParams == AllParams

\* the values a key takes in the model; "" is the empty string
ValuesOf(key) ==
    CASE key = "monitoring_target"      -> {"", "water_quality", "urban_expansion"}
      [] key = "observation_frequency"  -> {"weekly"}
      [] key = "monitoring_period"      -> {"six_months"}
      [] key = "observation_area"       -> {"qinghai_lake"}
      [] key = "coverage_range"         -> {"100_km2", "whole_lake", "regional"}
      [] OTHER                          -> {"given", "default"}

NoParams == [k \in AllParams |-> Absent]

Present(params) == {k \in AllParams : params[k] # Absent}

\* dict.update
Update(params, assigned) ==
    [k \in AllParams |-> IF assigned[k] # Absent THEN assigned[k] ELSE params[k]]

---------------------------------------------------------------------------
(* ParameterUncertaintyCalculator, in tenths                               *)

weights_web_search_negative == [knowledge_base |-> 2, web_search |-> -3, llm_judgment |-> 5]

weights == [knowledge_base |-> 2, web_search |-> 3, llm_judgment |-> 5]

threshold == 5

B2N(b) == IF b THEN 1 ELSE 0

NotExists_unstripped(text) == text = Absent \/ text = ""

\* "not text or not text.strip()": no value, the empty string, or a string of
\* whitespace only
NotExists(text) == text = Absent \/ text = "" \/ text = " "

NotExistsResult ==
    [uncertainty_score |-> 10, needs_clarification |-> TRUE, knowledge_base_match |-> FALSE]

\* sig: [kb, web, llm] the three signals of one monitoring_target scoring
calculate_monitoring_target_uncertainty(target_text, sig) ==
    IF NotExists(target_text) THEN NotExistsResult
    ELSE LET clarity_score == weights.knowledge_base * B2N(sig.kb)
                              + weights.web_search * B2N(sig.web)
                              + weights.llm_judgment * B2N(sig.llm)
             score == 10 - clarity_score
         IN [uncertainty_score |-> score, needs_clarification |-> score > threshold,
             knowledge_base_match |-> sig.kb]

\* the two-signal gate of the structural kinds (frequency, period, area, range):
\* sig.fmt is the format/validity check, sig.llm the answer of the LLM fallback,
\* which is consulted only when the format check fails
StructuralUncertainty(text, sig) ==
    IF NotExists(text) THEN NotExistsResult
    ELSE LET valid_format == sig.fmt
             llm_valid == (~valid_format) /\ sig.llm
             score == IF valid_format \/ llm_valid THEN 0 ELSE 10
         IN [uncertainty_score |-> score, needs_clarification |-> score > 5,
             knowledge_base_match |-> FALSE]

_calculate_frequency_uncertainty(frequency_text, sig) == StructuralUncertainty(frequency_text, sig)

_calculate_period_uncertainty(period_text, sig) == StructuralUncertainty(period_text, sig)

_calculate_area_uncertainty(area_text, sig) == StructuralUncertainty(area_text, sig)

_calculate_range_uncertainty(range_text, sig) == StructuralUncertainty(range_text, sig)

\* results are functions from the scored keys to their result
NoResults == [k \in {} |-> NotExistsResult]

calculate_time_uncertainty(frequency_text, period_text, gate) ==
    [k \in {"observation_frequency", "monitoring_period"} |->
        IF k = "observation_frequency"
        THEN _calculate_frequency_uncertainty(frequency_text, gate.observation_frequency)
        ELSE _calculate_period_uncertainty(period_text, gate.monitoring_period)]

calculate_location_uncertainty(area_text, range_text, gate) ==
    [k \in {"observation_area", "coverage_range"} |->
        IF k = "observation_area"
        THEN _calculate_area_uncertainty(area_text, gate.observation_area)
        ELSE _calculate_range_uncertainty(range_text, gate.coverage_range)]

NeedsClarification(results) == {k \in DOMAIN results : results[k].needs_clarification}

---------------------------------------------------------------------------
(* StagedParameterClarificationNode                                        *)

\* the optional stage is never wanted
_user_wants_stage_never(stage) == FALSE

_user_wants_stage(stage) == TRUE

IndexOf(seq, x) == CHOOSE i \in DOMAIN seq : seq[i] = x

\* the search for the next stage starts at the first stage instead of after
\* the current one
get_next_collection_stage_from_first(current_stage, extracted_params) ==
    IF current_stage = "not_started" THEN "purpose"
    ELSE IF current_stage = "completed" THEN None
    ELSE LET candidates == {i \in DOMAIN stage_order :
                               \E p \in Range(COLLECTION_STAGES[stage_order[i]].params) :
                                   extracted_params[p] = Absent}
         IN IF candidates = {} THEN None
            ELSE stage_order[CHOOSE i \in candidates : \A j \in candidates : i <= j]

get_next_collection_stage(current_stage, extracted_params) ==
    IF current_stage = "not_started" THEN "purpose"
    ELSE IF current_stage = "completed" THEN None
    ELSE IF current_stage \notin Range(stage_order) THEN "purpose"
    ELSE LET current_index == IndexOf(stage_order, current_stage)
             candidates == {i \in (current_index + 1)..Len(stage_order) :
                               LET stage_info == COLLECTION_STAGES[stage_order[i]]
                                   missing_params == {p \in Range(stage_info.params) :
                                                         extracted_params[p] = Absent}
                               IN missing_params # {}
                                  /\ (stage_info.required \/ _user_wants_stage(stage_order[i]))}
         IN IF candidates = {} THEN None
            ELSE stage_order[CHOOSE i \in candidates : \A j \in candidates : i <= j]

\* gate: the signals the collaborators would return for each key in this call
check_stage_uncertainty(extracted_params, stage, gate) ==
    IF stage = "purpose" THEN
        IF extracted_params["monitoring_target"] # Absent
        THEN [k \in {"monitoring_target"} |->
                 calculate_monitoring_target_uncertainty(
                     extracted_params["monitoring_target"], gate.monitoring_target)]
        ELSE NoResults
    ELSE IF stage = "time" THEN
        calculate_time_uncertainty(extracted_params["observation_frequency"],
                                   extracted_params["monitoring_period"], gate)
    ELSE IF stage = "location_area" THEN
        IF extracted_params["observation_area"] # Absent
        THEN LET location_uncertainty ==
                     calculate_location_uncertainty(extracted_params["observation_area"],
                                                    Absent, gate)
             IN [k \in {"observation_area"} |-> location_uncertainty[k]]
        ELSE NoResults
    ELSE IF stage = "location_range" THEN
        IF extracted_params["coverage_range"] # Absent
        THEN LET location_uncertainty ==
                     calculate_location_uncertainty(extracted_params["observation_area"],
                                                    extracted_params["coverage_range"], gate)
             IN [k \in {"coverage_range"} |-> location_uncertainty[k]]
        ELSE NoResults
    ELSE NoResults

\* the comparison with max_retries is strict: one retry too many
should_retry_stage_strict(results, stage, retry_count) ==
    IF retry_count > COLLECTION_STAGES[stage].max_retries THEN FALSE
    ELSE NeedsClarification(results) # {}

should_retry_stage(results, stage, retry_count) ==
    IF retry_count >= COLLECTION_STAGES[stage].max_retries THEN FALSE
    ELSE NeedsClarification(results) # {}

\* the keyword of target_specific_params found in the monitoring target text
TargetKeyword(monitoring_target) ==
    CASE monitoring_target = "water_quality"   -> "water"
      [] monitoring_target = "urban_expansion" -> "city"
      [] OTHER                                 -> None

target_specific_params(keyword) ==
    CASE keyword = "water"       -> <<"spectral_bands", "accuracy_requirements",
                                      "analysis_requirements">>
      [] keyword = "agriculture" -> <<"spatial_resolution", "spectral_bands",
                                      "monitoring_season">>
      [] keyword = "city"        -> <<"spatial_resolution", "analysis_requirements",
                                      "data_processing_level">>
      [] OTHER                   -> <<>>

RECURSIVE AppendNew(_, _, _)
\* "if param not in selected_params and param not in existing_params: append"
AppendNew(selected, specific, existing) ==
    IF specific = <<>> THEN selected
    ELSE LET param == Head(specific)
         IN AppendNew(IF param \notin Range(selected) /\ param \notin existing
                      THEN Append(selected, param) ELSE selected,
                      Tail(specific), existing)

_get_relevant_technical_params_for_stage(monitoring_target, existing_params) ==
    LET base_tech_params == <<"spatial_resolution", "analysis_requirements", "output_format">>
        existing == Present(existing_params)
        selected_params == AppendNew(base_tech_params,
                                     target_specific_params(TargetKeyword(monitoring_target)),
                                     existing)
    IN SelectNotIn(selected_params, existing)

FirstN(seq, n) == SubSeq(seq, 1, IF Len(seq) < n THEN Len(seq) ELSE n)

_get_param_config(param_key) == param_key \in ConfiguredParams

\* a retry asks for every key of the stage, the accepted ones included
generate_stage_questions_all_keys(extracted_params, retry_count, stage, results) ==
    LET params_to_collect ==
            IF stage = "technical"
            THEN FirstN(_get_relevant_technical_params_for_stage(
                            IF extracted_params["monitoring_target"] = Absent
                            THEN "" ELSE extracted_params["monitoring_target"],
                            extracted_params), 4)
            ELSE SelectSeq(COLLECTION_STAGES[stage].params,
                     LAMBDA param_key :
                         IF retry_count > 0 /\ DOMAIN results # {}
                         THEN TRUE
                         ELSE extracted_params[param_key] = Absent)
    IN SelectSeq(params_to_collect, LAMBDA param_key : _get_param_config(param_key))

\* the parameter_key of the questions generated, in order
generate_stage_questions(extracted_params, retry_count, stage, results) ==
    LET stage_info == COLLECTION_STAGES[stage]
        params_to_collect ==
            IF stage = "technical"
            THEN FirstN(_get_relevant_technical_params_for_stage(
                            IF extracted_params["monitoring_target"] = Absent
                            THEN "" ELSE extracted_params["monitoring_target"],
                            extracted_params), 4)
            ELSE SelectSeq(stage_info.params,
                     LAMBDA param_key :
                         IF retry_count > 0 /\ DOMAIN results # {}
                         THEN param_key \in NeedsClarification(results)
                         ELSE extracted_params[param_key] = Absent)
    IN SelectSeq(params_to_collect, LAMBDA param_key : _get_param_config(param_key))

---------------------------------------------------------------------------
(* EnhancedParameterClarificationNode                                      *)

\* A WorkflowState as a record st: stage, params, retry, pending, awaiting,
\* history, completed, skipped, msg (latest user message), results, raised.

\* msg.new_requirement: the keyword tests of _is_new_requirement on the message log
_is_new_requirement(st) ==
    IF st.awaiting THEN FALSE ELSE st.msg.new_requirement

\* returns the decision and the state, which the function may change
should_skip_clarification(st) ==
    LET current_stage == st.stage
        old_stage_order == <<"purpose", "time", "location", "technical">>
        essential_params == {"monitoring_target", "observation_area",
                             "observation_frequency", "monitoring_period"}
        missing_params == {p \in essential_params : NotExists(st.params[p])}
        has_technical_stage == "technical" \in st.history
    IN IF st.msg.skip_all THEN [skip |-> TRUE, st |-> st]
       ELSE IF current_stage # "completed" /\ current_stage # "not_started"
               /\ current_stage \in Range(old_stage_order)
               /\ IndexOf(old_stage_order, current_stage) < Len(old_stage_order)
            THEN [skip |-> FALSE, st |-> st]
       ELSE IF st.completed
            THEN IF _is_new_requirement(st)
                 THEN [skip |-> FALSE,
                       st |-> [st EXCEPT !.completed = FALSE, !.params = NoParams]]
                 ELSE [skip |-> TRUE, st |-> st]
       ELSE IF missing_params # {} THEN [skip |-> FALSE, st |-> st]
       ELSE IF ~has_technical_stage /\ current_stage # "technical"
            THEN [skip |-> FALSE, st |-> st]
       ELSE [skip |-> TRUE, st |-> st]

\* the default coverage the area text selects
CoverageDefault(area) == IF area = "qinghai_lake" THEN "whole_lake" ELSE "regional"

\* the technical keys for which the smart_defaults entry of the configuration
\* that matches the monitoring target gives a value
SmartDefaultKeys == {"spatial_resolution", "output_format"}

\* the defaults are assigned without the tests for a missing key
apply_smart_defaults_overwrites(params) ==
    LET tech_params == {"spatial_resolution", "spectral_bands", "analysis_requirements",
                        "accuracy_requirements", "time_criticality", "weather_dependency",
                        "output_format"}
    IN [k \in AllParams |->
          IF k = "coverage_range" /\ params["observation_area"] # Absent
          THEN CoverageDefault(params["observation_area"])
          ELSE IF k \in tech_params /\ k \in SmartDefaultKeys
          THEN "default"
          ELSE params[k]]

apply_smart_defaults(params) ==
    LET tech_params == {"spatial_resolution", "spectral_bands", "analysis_requirements",
                        "accuracy_requirements", "time_criticality", "weather_dependency",
                        "output_format"}
    IN [k \in AllParams |->
          IF k = "coverage_range" /\ params[k] = Absent /\ params["observation_area"] # Absent
          THEN CoverageDefault(params["observation_area"])
          ELSE IF k \in tech_params /\ params[k] = Absent /\ k \in SmartDefaultKeys
          THEN "default"
          ELSE params[k]]

\* extracted: what the rule-based and DeepSeek extraction return for the messages
extract_existing_parameters(st, extracted) ==
    IF st.awaiting THEN [params |-> st.params, st |-> st]
    ELSE [params |-> extracted,
          st |-> IF _is_new_requirement(st)
                 THEN [st EXCEPT !.params = NoParams, !.completed = FALSE]
                 ELSE st]

---------------------------------------------------------------------------
(* process_staged_parameter_clarification                                  *)

Retry(st, stage) == st.retry[stage]

increment_stage_retry(st, stage) == [st EXCEPT !.retry[stage] = @ + 1]

\* completing the collection stores the initial stage instead of "completed"
set_collection_stage_restart(st, stage) ==
    [st EXCEPT !.stage = IF stage = "completed" THEN "not_started" ELSE stage]

set_collection_stage(st, stage) == [st EXCEPT !.stage = stage]

RECURSIVE process_staged_parameter_clarification(_, _, _)

\* lines 470-474: a record of every stage of the old stage list is in the history
has_all_stages(history) ==
    \A stage \in {"purpose", "time", "location", "technical"} : stage \in history

\* lines 484-495: the clarification is skipped and the defaults are applied
skip_clarification(st) ==
    [st EXCEPT !.skipped = TRUE, !.completed = TRUE, !.stage = "completed",
               !.params = apply_smart_defaults(st.params)]

\* lines 468-495: should_skip_clarification answered yes
skip_branch(st, next_stage, gate, extracted) ==
    IF (~has_all_stages(st.history)) /\ next_stage # None
    THEN process_staged_parameter_clarification(
             set_collection_stage(st, next_stage), gate, extracted)
    ELSE skip_clarification(st)

\* lines 548-557: the stage has no question to ask
no_questions_branch(st, next_stage, gate, extracted) ==
    IF next_stage # None
    THEN process_staged_parameter_clarification(
             set_collection_stage(st, next_stage), gate, extracted)
    ELSE [set_collection_stage(st, "completed") EXCEPT !.completed = TRUE]

\* lines 545-592: the questions of the stage are stored, or the stage is left
ask_stage_questions(st, questions, gate, extracted) ==
    IF questions = <<>>
    THEN no_questions_branch(st, get_next_collection_stage(st.stage, st.params),
                             gate, extracted)
    ELSE [st EXCEPT !.pending = questions, !.awaiting = TRUE]

\* lines 517-518, 546: the stage is retried with the results of its scoring
retry_branch(st, gate, extracted) ==
    ask_stage_questions(st, generate_stage_questions(st.params, Retry(st, st.stage),
                                                     st.stage, st.results),
                        gate, extracted)

\* lines 523-526, 546: the next stage is entered with no scoring result
enter_stage(st, gate, extracted) ==
    ask_stage_questions(st, generate_stage_questions(st.params, Retry(st, st.stage),
                                                     st.stage, NoResults),
                        gate, extracted)

\* with no stage to follow, the current stage is entered again instead of
\* completing the collection
advance_branch_reenters(st, next_stage, gate, extracted) ==
    IF next_stage = None
    THEN enter_stage(st, gate, extracted)
    ELSE enter_stage(set_collection_stage(st, next_stage), gate, extracted)

\* lines 519-543: the stage is left for the next one, or the collection completes
advance_branch(st, next_stage, gate, extracted) ==
    IF next_stage = None
    THEN [set_collection_stage(st, "completed") EXCEPT
              !.completed = TRUE, !.params = apply_smart_defaults(st.params)]
    ELSE enter_stage(set_collection_stage(st, next_stage), gate, extracted)

\* lines 513-526: st.results holds the scoring of the current stage
retry_or_advance(st, gate, extracted) ==
    IF DOMAIN st.results # {}
       /\ should_retry_stage(st.results, st.stage, Retry(st, st.stage))
    THEN retry_branch(increment_stage_retry(st, st.stage), gate, extracted)
    ELSE advance_branch(st, get_next_collection_stage(st.stage, st.params),
                        gate, extracted)

\* line 512
score_stage(st, gate, extracted) ==
    retry_or_advance([st EXCEPT !.results = check_stage_uncertainty(st.params, st.stage, gate)],
                     gate, extracted)

\* line 504: the extraction result becomes the state's parameter map
store_extracted(ex) == [ex.st EXCEPT !.params = ex.params]

\* lines 498-504: the extraction runs only with an empty map in the purpose stage
with_extraction(st, extracted) ==
    IF Present(st.params) = {} /\ st.stage = "purpose"
    THEN store_extracted(extract_existing_parameters(st, extracted))
    ELSE st

\* lines 468-512: sk is the answer of should_skip_clarification
skip_or_collect(sk, gate, extracted) ==
    IF sk.skip
    THEN skip_branch(sk.st, get_next_collection_stage(sk.st.stage, sk.st.params),
                     gate, extracted)
    ELSE score_stage(with_extraction(sk.st, extracted), gate, extracted)

process_staged_parameter_clarification(st0, gate, extracted) ==
    IF st0.stage = "completed" THEN st0
    ELSE skip_or_collect(
             should_skip_clarification(IF st0.stage = "not_started"
                                       THEN set_collection_stage(st0, "purpose")
                                       ELSE st0),
             gate, extracted)

---------------------------------------------------------------------------
(* process_staged_clarification_response                                   *)

\* StagedParameterClarificationNode and its base class define no
\* _get_stage_default: the call at line 667 raises AttributeError
_get_stage_default_defined == FALSE

\* lines 622-641: the parsed values are merged, the reply is recorded and the
\* waiting state is cleared
record_reply(st, parsed) ==
    [st EXCEPT !.params = Update(@, parsed.parameters),
               !.history = @ \cup {st.stage},
               !.awaiting = FALSE,
               !.pending = <<>>]

\* lines 664-666: the keys of the stage that the map does not hold
unset_stage_params(st) ==
    {param \in Range(COLLECTION_STAGES[st.stage].params) : st.params[param] = Absent}

\* lines 644-671: the user chose to skip
apply_skip_remaining(st, parsed) ==
    IF parsed.skip_remaining /\ st.stage = "technical"
    THEN [set_collection_stage(st, "completed") EXCEPT
              !.completed = TRUE, !.params = apply_smart_defaults(st.params)]
    ELSE IF parsed.skip_remaining /\ unset_stage_params(st) # {}
            /\ ~_get_stage_default_defined
    THEN [st EXCEPT !.raised = TRUE]
    ELSE st

\* lines 674, 688: the collection continues unless the call raised
continue_collection(st, gate, extracted) ==
    IF st.raised THEN st
    ELSE process_staged_parameter_clarification(st, gate, extracted)

\* parsed: [parameters, skip_remaining] as returned by parse_user_response
process_staged_clarification_response(st, parsed, gate, extracted) ==
    IF ~st.awaiting THEN st
    ELSE IF st.pending = <<>> THEN [st EXCEPT !.awaiting = FALSE]
    ELSE continue_collection(apply_skip_remaining(record_reply(st, parsed), parsed),
                             gate, extracted)

---------------------------------------------------------------------------
(* Inputs of one call                                                      *)

\* the values an utterance or a model answer can give a key
InputValues(key) ==
    CASE key = "coverage_range" -> {"100_km2"}
      [] key \in MandatoryParams -> ValuesOf(key) \ {""}
      [] OTHER -> {"given"}

RECURSIVE Assignments(_)
\* every assignment of input values to some of the keys of S
Assignments(S) ==
    IF S = {} THEN {NoParams}
    ELSE LET k == CHOOSE x \in S : TRUE
         IN {[m EXCEPT ![k] = v] : m \in Assignments(S \ {k}),
                                   v \in InputValues(k) \cup {Absent}}

\* the technical keys the first utterance can already state
TechnicalProfiles == {{}, {"spatial_resolution", "analysis_requirements", "output_format"},
                      DeclaredTechnicalParams}

\* the mandatory keys the first utterance can already state
MandatoryProfiles ==
    {{}, {"monitoring_target"}, MandatoryParams \ {"monitoring_target"}, MandatoryParams}

\* what extract_existing_parameters can return
ExtractedParams ==
    {[k \in AllParams |-> IF k \in profile THEN "given" ELSE m[k]] :
        m \in {a \in Assignments(MandatoryParams) : Present(a) \in MandatoryProfiles},
        profile \in TechnicalProfiles}

\* the extraction runs only while no parameter has been collected
ExtractionInputs(params, stage) ==
    IF Present(params) = {} /\ stage \in {"not_started", "purpose"}
    THEN ExtractedParams ELSE {NoParams}

\* a key the answer of the model can assign although no question asks for it:
\* parse_user_response returns the parsed_parameters of the model unfiltered
StrayKeys == {"coverage_range"}

\* what parse_user_response can return for the pending questions
ParseResults(pending) ==
    {[parameters |-> m, skip_remaining |-> skip] :
        m \in {a \in Assignments(Range(pending)) :
                  \/ Present(a) \in {{}, Range(pending)}
                  \/ \E i \in DOMAIN pending :
                        pending[i] \in MandatoryParams /\ Present(a) = {pending[i]}}
              \cup {a \in Assignments(StrayKeys \ Range(pending)) :
                       Present(a) # {}},
        skip \in BOOLEAN}

\* skip_all: the message is exactly one of the skip keywords of
\* should_skip_clarification; such a message holds no new-requirement keyword
UserMessages ==
    {m \in [skip_all : BOOLEAN, new_requirement : BOOLEAN] :
        ~(m.skip_all /\ m.new_requirement)}

NoMessage == [skip_all |-> FALSE, new_requirement |-> FALSE]

Signals3 == [kb : BOOLEAN, web : BOOLEAN, llm : BOOLEAN]

Signals2 == [fmt : BOOLEAN, llm : BOOLEAN]

\* in a conversation the model fallback of a structural check never rescues a
\* value whose format was rejected
TurnSignals2 == {s \in Signals2 : ~s.llm}

NoSignal3 == [kb |-> FALSE, web |-> FALSE, llm |-> FALSE]

NoSignal2 == [fmt |-> FALSE, llm |-> FALSE]

NoGate ==
    [monitoring_target |-> NoSignal3, observation_frequency |-> NoSignal2,
     monitoring_period |-> NoSignal2, observation_area |-> NoSignal2,
     coverage_range |-> NoSignal2]

\* the signals of the keys a call entered in this stage scores: the keys of the
\* stage that hold a non-empty value (no collaborator is consulted otherwise)
GateSignals(stage, params) ==
    LET scored == {k \in MandatoryParams :
                      /\ ~NotExists(params[k])
                      /\ \/ stage \in {"not_started", "purpose"} /\ k = "monitoring_target"
                         \/ stage \in CollectingStages
                            /\ stage # "purpose"
                            /\ k \in Range(COLLECTION_STAGES[stage].params)}
    IN {[monitoring_target |-> s3, observation_frequency |-> f, monitoring_period |-> p,
         observation_area |-> a, coverage_range |-> r] :
           s3 \in IF "monitoring_target" \in scored THEN Signals3 ELSE {NoSignal3},
           f \in IF "observation_frequency" \in scored THEN TurnSignals2 ELSE {NoSignal2},
           p \in IF "monitoring_period" \in scored THEN TurnSignals2 ELSE {NoSignal2},
           a \in IF "observation_area" \in scored THEN TurnSignals2 ELSE {NoSignal2},
           r \in IF "coverage_range" \in scored THEN TurnSignals2 ELSE {NoSignal2}}

\* the collaborator answers of one call of process_staged_parameter_clarification
\* in state st: what the extraction returns and what the gate's signals are
CallInputs(st) ==
    IF st.stage = "completed" THEN {[extracted |-> NoParams, gate |-> NoGate]}
    ELSE UNION {{[extracted |-> e, gate |-> g] :
                    g \in GateSignals(st.stage, IF e = NoParams THEN st.params ELSE e)} :
                e \in ExtractionInputs(st.params, st.stage)}

---------------------------------------------------------------------------
(* The conversation: one action is one call of process_user_input_streaming *)

NoParse == [parameters |-> NoParams, skip_remaining |-> FALSE]

NoParseResult == [parsed_params |-> {}, skip_remaining |-> FALSE]

Intents == {"generate_plan", "chat"}

\* the WorkflowState at the start of a turn, after the user message msg was logged
\* the WorkflowState of a turn; the message log is not kept from turn to turn
State(msg) ==
    [stage |-> parameter_collection_stage, params |-> extracted_parameters,
     retry |-> stage_retry_count, pending |-> pending_questions,
     awaiting |-> awaiting_clarification, history |-> parameter_collection_history,
     completed |-> clarification_completed, skipped |-> clarification_skipped,
     plan |-> main_plan, intent |-> intent,
     awaiting_ic |-> awaiting_intent_confirmation, pending_intent |-> pending_intent,
     intent_confirmed |-> intent_confirmed,
     msg |-> msg, results |-> NoResults, parse |-> NoParseResult,
     raised |-> FALSE, reset_done |-> FALSE, call |-> "none",
     messages |-> <<>>, latest_plan_request_index |-> -1]

SetState(st) ==
    /\ parameter_collection_stage' = st.stage
    /\ extracted_parameters' = st.params
    /\ stage_retry_count' = st.retry
    /\ pending_questions' = st.pending
    /\ awaiting_clarification' = st.awaiting
    /\ parameter_collection_history' = st.history
    /\ clarification_completed' = st.completed
    /\ clarification_skipped' = st.skipped
    /\ main_plan' = st.plan
    /\ intent' = st.intent
    /\ awaiting_intent_confirmation' = st.awaiting_ic
    /\ pending_intent' = st.pending_intent
    /\ intent_confirmed' = st.intent_confirmed
    /\ uncertainty_results' = st.results
    /\ parse_result' = st.parse
    /\ raised' = st.raised
    /\ reset_done' = st.reset_done
    /\ last_call' = st.call
    /\ UNCHANGED <<fn_in, fn_out, stream_vars, crawl_job>>

---------------------------------------------------------------------------
(* StreamingContentBuffer (buffered_streaming_planning_nodes.py)           *)
(* Text is a sequence of characters.  The streaming_callback is set; the  *)
(* chunks it receives are kept, in order, in the field emitted.            *)

NEWLINE == "\n"

CR == "\r"

\* '| ---', the marker of a table separator row
TABLE_MARKER == <<"|", " ", "-", "-", "-">>

\* '\n\n'
PARAGRAPH_BREAK == <<NEWLINE, NEWLINE>>

\* "pattern in text"
Contains(text, pattern) ==
    \E i \in 1..(Len(text) - Len(pattern) + 1) :
        SubSeq(text, i, i + Len(pattern) - 1) = pattern

\* text.count('\n')
count_newlines(text) == Cardinality({i \in 1..Len(text) : text[i] = NEWLINE})

RECURSIVE normalise_line_endings(_)
\* content_chunk.replace('\r\n', '\n').replace('\r', '\n')
normalise_line_endings(text) ==
    IF text = <<>> THEN <<>>
    ELSE IF Head(text) = CR
         THEN IF Len(text) >= 2 /\ text[2] = NEWLINE
              THEN <<NEWLINE>> \o normalise_line_endings(SubSeq(text, 3, Len(text)))
              ELSE <<NEWLINE>> \o normalise_line_endings(Tail(text))
         ELSE <<Head(text)>> \o normalise_line_endings(Tail(text))

RECURSIVE lstrip(_)
lstrip(text) ==
    IF text # <<>> /\ Head(text) \in {" ", NEWLINE, CR}
    THEN lstrip(Tail(text)) ELSE text

\* content_chunk.strip().startswith('|')
starts_with_pipe(text) == lstrip(text) # <<>> /\ Head(lstrip(text)) = "|"

\* the place of the first '\n\n' of a text, 0 when it has none
first_break(text) ==
    IF Contains(text, PARAGRAPH_BREAK)
    THEN CHOOSE i \in 1..(Len(text) - 1) :
            /\ SubSeq(text, i, i + 1) = PARAGRAPH_BREAK
            /\ \A j \in 1..(i - 1) : SubSeq(text, j, j + 1) # PARAGRAPH_BREAK
    ELSE 0

\* text.split('\n\n', 1)
split_once(text) ==
    IF first_break(text) = 0 THEN <<text>>
    ELSE <<SubSeq(text, 1, first_break(text) - 1),
           SubSeq(text, first_break(text) + 2, Len(text))>>

Chunk(content, is_table) == [content |-> content, is_table |-> is_table]

\* StreamingContentBuffer.__init__
StreamingContentBuffer(min_chunk_size) ==
    [min_chunk_size |-> min_chunk_size, buffer |-> <<>>, full_content |-> <<>>,
     chunk_count |-> 0, in_table |-> FALSE, table_buffer |-> <<>>,
     table_line_count |-> 0, emitted |-> <<>>]

_send_table(self) ==
    IF self.table_buffer # <<>>
    THEN [self EXCEPT !.emitted = Append(@, Chunk(self.table_buffer, TRUE)),
                      !.table_buffer = <<>>, !.table_line_count = 0]
    ELSE self

_send_buffer(self) ==
    IF self.buffer # <<>>
    THEN [self EXCEPT !.emitted = Append(@, Chunk(self.buffer, FALSE)),
                      !.buffer = <<>>, !.chunk_count = 0]
    ELSE self

\* the separator row arrives outside a table: the ordinary buffer is sent,
\* and the table buffer starts with what is left of it and the fragment
start_table(sent, content_chunk) ==
    [sent EXCEPT !.in_table = TRUE,
                 !.table_buffer = sent.buffer \o content_chunk,
                 !.buffer = <<>>,
                 !.table_line_count = count_newlines(content_chunk)]

\* the table is sent, and the text after the first blank line of the fragment
\* goes to the ordinary buffer
end_table(sent, remaining) ==
    IF Len(remaining) > 1
    THEN [sent EXCEPT !.buffer = PARAGRAPH_BREAK \o remaining[2]]
    ELSE sent

table_content(self, content_chunk) ==
    IF \/ Contains(self.table_buffer, PARAGRAPH_BREAK)
       \/ /\ Contains(content_chunk, <<NEWLINE>>)
          /\ ~starts_with_pipe(content_chunk)
          /\ self.table_line_count >= 3
    THEN end_table(_send_table([self EXCEPT !.in_table = FALSE]),
                   split_once(content_chunk))
    ELSE self

\* elapsed: time_since_last_send >= max_buffer_time
ordinary_content(self, elapsed) ==
    IF \/ Len(self.buffer) >= self.min_chunk_size
       \/ elapsed
       \/ Contains(self.buffer, PARAGRAPH_BREAK)
       \/ self.chunk_count >= 10
    THEN _send_buffer(self)
    ELSE self

add_normalised(self, content_chunk, elapsed) ==
    IF Contains(content_chunk, TABLE_MARKER) /\ ~self.in_table
    THEN start_table(_send_buffer(self), content_chunk)
    ELSE IF self.in_table
         THEN table_content(
                  [self EXCEPT !.table_buffer = @ \o content_chunk,
                               !.table_line_count = @ + count_newlines(content_chunk)],
                  content_chunk)
         ELSE ordinary_content(
                  [self EXCEPT !.buffer = @ \o content_chunk, !.chunk_count = @ + 1],
                  elapsed)

add_content(self, content_chunk, elapsed) ==
    add_normalised(
        [self EXCEPT !.full_content = @ \o normalise_line_endings(content_chunk)],
        normalise_line_endings(content_chunk), elapsed)

flush(self) == _send_buffer(_send_table(self))

---------------------------------------------------------------------------
(* call_deepseek_streaming_api_buffered: one generation request            *)

\* min_chunk_size of the constructor (20) and of the generation call (10)
MinChunkSizes == {10, 20}

HeaderRow == <<"|", " ", "a", " ", "|", " ", "b", " ", "|", NEWLINE>>

ShortSeparatorRow ==
    <<"|", " ", "-", "-", " ", "|", " ", "-", "-", " ", "|", NEWLINE>>

SeparatorRow ==
    <<"|", " ", "-", "-", "-", " ", "|", " ", "-", "-", "-", " ", "|", NEWLINE>>

DataRow == <<"|", " ", "1", " ", "|", " ", "2", " ", "|", NEWLINE>>

NextParagraph ==
    <<"n", "e", "x", "t", " ", "p", "a", "r", "a", "g", "r", "a", "p", "h">>

Intro == <<"p", "l", "a", "n", ":", NEWLINE>>

\* the stream of the scenario: a table whose separator row has two dashes
ScenarioStream ==
    [pieces |-> <<HeaderRow, ShortSeparatorRow, DataRow \o <<NEWLINE>>, NextParagraph>>,
     table  |-> HeaderRow \o ShortSeparatorRow \o DataRow]

\* text, a table whose separator row has three dashes, a blank line, text
TableStream ==
    [pieces |-> <<Intro, HeaderRow, SeparatorRow, DataRow, <<NEWLINE>>, NextParagraph>>,
     table  |-> HeaderRow \o SeparatorRow \o DataRow]

\* the same table with its last row and the blank line in one fragment
TableBreakStream ==
    [pieces |-> <<HeaderRow, SeparatorRow, DataRow \o <<NEWLINE>>, NextParagraph>>,
     table  |-> HeaderRow \o SeparatorRow \o DataRow]

\* ordinary text with the three kinds of line ending
TextStream ==
    [pieces |-> <<<<"a", CR, NEWLINE>>, <<"b", CR>>, <<"c", NEWLINE>>, <<"d">>, <<"e">>>>,
     table  |-> <<>>]

NoStream == [pieces |-> <<>>, table |-> <<>>]

Streams == {ScenarioStream, TableStream, TableBreakStream, TextStream}

\* a request: the stream the API will deliver, how many pieces and fragments
\* were delivered, how the call ended, and whether flush was called
Request(stream, status) ==
    [stream |-> stream, delivered |-> 0, fragments |-> 0, status |-> status,
     flushed |-> FALSE]

NoRequest == Request(NoStream, "idle")

RECURSIVE Concat(_)
Concat(texts) == IF texts = <<>> THEN <<>> ELSE Head(texts) \o Concat(Tail(texts))

\* the next fragment: the pieces delivered + 1 .. upto, in one delta
Fragment(call, upto) ==
    Concat(SubSeq(call.stream.pieces, call.delivered + 1, upto))

---------------------------------------------------------------------------
(* CrawlerWorkflow (tools/crawler_agent/crawler_workflow.py, nodes.py)     *)

workflow_graph ==
    [START             |-> "parameter_parsing",
     parameter_parsing |-> "web_crawler",
     web_crawler       |-> "data_cleaning",
     data_cleaning     |-> "duplicate_check",
     duplicate_check   |-> "file_write",
     file_write        |-> "logging",
     logging           |-> "END",
     error_handler     |-> "END"]

\* the executions of error_handler_node the model follows
MaxHandlerRuns == 3

\* the satellites one crawl can bring
MaxCrawled == 2

MaxSatellites == {0, 3, 60}

\* a CrawlJob and the CrawlerState of its run
CrawlJob(max_satellites, progress_callback) ==
    [status |-> "pending", max_satellites |-> max_satellites,
     progress_callback |-> progress_callback,
     current_node |-> "START", error_occurred |-> FALSE,
     raw_satellite_data |-> 0, formatted_satellite_data |-> 0,
     new_satellites_count |-> 0, error_handler_runs |-> 0]

CrawlJobs ==
    {CrawlJob(max_satellites, progress_callback) :
        max_satellites \in MaxSatellites, progress_callback \in BOOLEAN}

\* the except clause of a node: the error is recorded in the state
node_failed(state) == [state EXCEPT !.error_occurred = TRUE]

parameter_parsing_node(state) ==
    [state EXCEPT !.max_satellites = IF @ <= 0 THEN 10 ELSE IF @ > 50 THEN 50 ELSE @,
                  !.error_occurred = FALSE]

web_crawler_node(state, crawled) == [state EXCEPT !.raw_satellite_data = crawled]

data_cleaning_node(state, formatted) ==
    IF state.raw_satellite_data = 0
    THEN [state EXCEPT !.formatted_satellite_data = 0]
    ELSE [state EXCEPT !.formatted_satellite_data = formatted]

duplicate_check_node(state, new) ==
    IF state.formatted_satellite_data = 0
    THEN [state EXCEPT !.new_satellites_count = 0]
    ELSE [state EXCEPT !.new_satellites_count = new]

\* the handler writes its log entry and leaves error_occurred as it is; its
\* own except clause swallows every exception
error_handler_node(state) == [state EXCEPT !.error_handler_runs = @ + 1]

\* the node of the current step; data is what its collaborator returns
execute_node(state, fails, data) ==
    IF state.current_node = "error_handler" THEN error_handler_node(state)
    ELSE IF fails THEN node_failed(state)
    ELSE CASE state.current_node = "parameter_parsing" -> parameter_parsing_node(state)
           [] state.current_node = "web_crawler" -> web_crawler_node(state, data)
           [] state.current_node = "data_cleaning" ->
                data_cleaning_node(state, IF data <= state.raw_satellite_data
                                          THEN data ELSE state.raw_satellite_data)
           [] state.current_node = "duplicate_check" ->
                duplicate_check_node(state, IF data <= state.formatted_satellite_data
                                            THEN data ELSE state.formatted_satellite_data)
           [] OTHER -> state

\* "if state['error_occurred']: current_node = 'error_handler' else the graph"
next_node(state, node) ==
    [state EXCEPT !.current_node = IF state.error_occurred THEN "error_handler"
                                   ELSE workflow_graph[node]]

\* the except clause of _execute_workflow: the handler runs and the state is
\* returned
workflow_failed(state) ==
    [error_handler_node(node_failed(state)) EXCEPT !.current_node = "END"]

NoRetries == [s \in CollectingStages |-> 0]

\* no function is under check during a conversation
NoCall == [fn |-> "none"]

NoReturn == [done |-> FALSE]

Init ==
    /\ parameter_collection_stage = "not_started"
    /\ extracted_parameters = NoParams
    /\ stage_retry_count = NoRetries
    /\ pending_questions = <<>>
    /\ awaiting_clarification = FALSE
    /\ parameter_collection_history = {}
    /\ clarification_completed = FALSE
    /\ clarification_skipped = FALSE
    /\ main_plan = FALSE
    /\ intent = "unknown"
    /\ awaiting_intent_confirmation = FALSE
    /\ pending_intent = None
    /\ intent_confirmed = FALSE
    /\ uncertainty_results = NoResults
    /\ parse_result = NoParseResult
    /\ raised = FALSE
    /\ reset_done = FALSE
    /\ last_call = "none"
    /\ fn_in = NoCall
    /\ fn_out = NoReturn
    /\ content_buffer = StreamingContentBuffer(20)
    /\ request = NoRequest
    /\ crawl_job = CrawlJob(3, FALSE)
    /\ skip_phrase_sent = FALSE

\* the intent of the last user message is analysed; a generate_plan request
\* while a plan exists is the task boundary
\* the reset does not test whether a plan exists
\* WorkflowState.get_messages_since_latest_plan_request
get_messages_since_latest_plan_request(st) ==
    IF st.latest_plan_request_index < 0 THEN st.messages
    ELSE SubSeq(st.messages, st.latest_plan_request_index + 1, Len(st.messages))

analyze_user_input_streaming_always_reset(st, new_intent) ==
    LET st1 == IF new_intent = "generate_plan"
               THEN [st EXCEPT !.completed = FALSE, !.skipped = FALSE,
                               !.params = NoParams, !.awaiting = FALSE,
                               !.pending = <<>>, !.stage = "not_started",
                               !.history = {}, !.retry = NoRetries,
                               !.reset_done = TRUE,
                               !.latest_plan_request_index = Len(st.messages) - 3]
               ELSE st
    IN [st1 EXCEPT !.intent = new_intent]

\* the reset leaves the collection history and the retry counters
analyze_user_input_streaming_keeps_history(st, new_intent) ==
    LET st1 == IF new_intent = "generate_plan" /\ st.plan
               THEN [st EXCEPT !.completed = FALSE, !.skipped = FALSE,
                               !.params = NoParams, !.awaiting = FALSE,
                               !.pending = <<>>, !.stage = "not_started",
                               !.reset_done = TRUE,
                               !.latest_plan_request_index = Len(st.messages) - 3]
               ELSE st
    IN [st1 EXCEPT !.intent = new_intent]

analyze_user_input_streaming(st, new_intent) ==
    LET st1 == IF new_intent = "generate_plan" /\ st.plan
               THEN [st EXCEPT !.completed = FALSE, !.skipped = FALSE,
                               !.params = NoParams, !.awaiting = FALSE,
                               !.pending = <<>>, !.stage = "not_started",
                               !.history = {}, !.retry = NoRetries,
                               !.reset_done = TRUE,
                               !.latest_plan_request_index = Len(st.messages) - 3]
               ELSE st
    IN [st1 EXCEPT !.intent = new_intent]

handle_parameter_clarification(st, parsed, gate, extracted) ==
    IF st.awaiting
    THEN process_staged_clarification_response(
             [st EXCEPT !.parse = [parsed_params |-> Present(parsed.parameters),
                                   skip_remaining |-> parsed.skip_remaining],
                        !.call = "R"],
             parsed, gate, extracted)
    ELSE process_staged_parameter_clarification([st EXCEPT !.call = "P"], gate, extracted)

\* lines 552-562, 604: the turn returns while questions are pending, or when
\* the call raised; otherwise it ends by clearing intent_confirmed
end_of_turn(st) ==
    IF st.raised \/ st.awaiting THEN st
    ELSE [st EXCEPT !.intent_confirmed = FALSE]

\* process_user_input_streaming from the intent confirmation check on
Dispatch(st, the_intent, gate, extracted) ==
    IF the_intent = "generate_plan" /\ ~st.intent_confirmed
    THEN [st EXCEPT !.pending_intent = the_intent, !.awaiting_ic = TRUE,
                    !.intent_confirmed = FALSE]
    ELSE IF the_intent = "generate_plan" /\ ~st.completed
    THEN end_of_turn(handle_parameter_clarification(st, NoParse, gate, extracted))
    ELSE IF the_intent = "generate_plan"
    THEN [st EXCEPT !.plan = TRUE, !.intent_confirmed = FALSE]
    ELSE [st EXCEPT !.intent_confirmed = FALSE]

\* the turn reaches process_staged_parameter_clarification
WillClarify(st, the_intent) ==
    the_intent = "generate_plan" /\ st.intent_confirmed /\ ~st.completed

DispatchAll(st, the_intent) ==
    IF WillClarify(st, the_intent)
    THEN {Dispatch(st, the_intent, in.gate, in.extracted) : in \in CallInputs(st)}
    ELSE {Dispatch(st, the_intent, NoGate, NoParams)}

\* lines 426-439: the turn returns while questions are pending, or when the
\* call raised; otherwise it goes on with the intent saved before
after_reply(st, gate, extracted) ==
    IF st.raised \/ st.awaiting THEN st
    ELSE Dispatch(st, st.intent, gate, extracted)

\* the history of the task after a turn that ends in st: msg is the user
\* message of the turn and skip_remaining what parse_user_response reported
\* for it; the task-boundary reset starts a new history
SkipPhraseSent(st, msg, skip_remaining) ==
    \/ ~st.reset_done /\ skip_phrase_sent
    \/ msg.skip_all
    \/ skip_remaining

\* the turn ends in st
EndTurn(st, msg, skip_remaining) ==
    /\ SetState(st)
    /\ skip_phrase_sent' = SkipPhraseSent(st, msg, skip_remaining)

\* a turn while an answer to clarification questions is awaited
clarification_reply_turn ==
    /\ awaiting_clarification
    /\ \E msg \in UserMessages, parsed \in ParseResults(pending_questions) :
       LET st0 == State(msg)
           merged == [st0 EXCEPT !.params = Update(@, parsed.parameters)]
       IN \E in \in CallInputs(merged) :
          EndTurn(after_reply(
                      handle_parameter_clarification(st0, parsed, in.gate, in.extracted),
                      in.gate, in.extracted),
                  msg, parsed.skip_remaining)

\* a turn while the confirmation of an intent is awaited
intent_confirmation_turn ==
    /\ ~awaiting_clarification
    /\ awaiting_intent_confirmation /\ pending_intent # None
    /\ \E msg \in UserMessages, answer \in {"confirmed", "denied"} \cup Intents :
          LET st == State(msg)
          IN IF answer = "confirmed"
             THEN \E st2 \in DispatchAll([st EXCEPT !.intent = st.pending_intent,
                                                    !.awaiting_ic = FALSE,
                                                    !.intent_confirmed = TRUE,
                                                    !.pending_intent = None],
                                         st.pending_intent) : EndTurn(st2, msg, FALSE)
             ELSE IF answer \in Intents
             THEN EndTurn([st EXCEPT !.intent = answer, !.pending_intent = answer],
                          msg, FALSE)
             ELSE EndTurn([st EXCEPT !.awaiting_ic = FALSE, !.pending_intent = None],
                          msg, FALSE)

\* any other turn: the intent of the message is analysed first
analysis_turn ==
    /\ ~awaiting_clarification
    /\ ~(awaiting_intent_confirmation /\ pending_intent # None)
    /\ \E msg \in UserMessages, new_intent \in Intents :
       LET st1 == analyze_user_input_streaming(State(msg), new_intent)
       IN \E st2 \in DispatchAll(st1, st1.intent) : EndTurn(st2, msg, FALSE)

Next ==
    \/ clarification_reply_turn
    \/ intent_confirmation_turn
    \/ analysis_turn

Spec == Init /\ [][Next]_vars

---------------------------------------------------------------------------
(* parse_user_response. A value is a sequence of characters; a reply is    *)
(* given by what each strategy of the parser finds in it.                  *)

\* the keys a parse result can hold
ParseKeys == {"observation_frequency", "monitoring_period", "observation_area",
              "monitoring_target"}

\* the key is not in the dictionary
NoValue == <<>>

NoParsed == [k \in ParseKeys |-> NoValue]

Assigned(parsed) == {k \in ParseKeys : parsed[k] # NoValue}

RECURSIVE strip(_)
\* str.strip
strip(value) ==
    IF value # <<>> /\ Head(value) = " " THEN strip(Tail(value))
    ELSE IF value # <<>> /\ value[Len(value)] = " "
    THEN strip(SubSeq(value, 1, Len(value) - 1))
    ELSE value

\* line 1762: the characters shi, fou, hao and the word ke-yi (yes, no, good,
\* fine), each character written by its reading
Affirmatives == {<<"shi">>, <<"fou">>, <<"hao">>, <<"ke", "yi">>}

\* lines 1756-1763: a value too short or meaningless is deleted
validate_parsed(parsed) ==
    [k \in ParseKeys |->
        IF Len(strip(parsed[k])) < 2 \/ strip(parsed[k]) \in Affirmatives
        THEN NoValue ELSE parsed[k]]

\* lines 1689-1707: the value of the first option found in the reply
match_options(response, questions) ==
    [k \in ParseKeys |-> IF k \in Range(questions) THEN response.option_hit[k]
                         ELSE NoValue]

\* lines 1714-1753: positional split, then labelled pattern, then loose extraction
parse_remaining(response, questions, exact) ==
    [k \in ParseKeys |->
        IF exact[k] # NoValue THEN exact[k]
        ELSE IF k \notin Range(questions) THEN NoValue
        ELSE IF Len(response.parts) = Len(questions)
        THEN strip(response.parts[IndexOf(questions, k)])
        ELSE IF response.labelled[k] # NoValue THEN strip(response.labelled[k])
        ELSE response.loose[k]]

\* lines 1708-1764
parse_after_options(response, questions, exact) ==
    IF Cardinality(Assigned(exact)) = Len(questions) THEN exact
    ELSE validate_parsed(parse_remaining(response, questions, exact))

_parse_response_by_rules(response, questions) ==
    IF response.rule_skip_word THEN NoParsed
    ELSE parse_after_options(response, questions, match_options(response, questions))

_check_skip_remaining(response) == response.skip_phrase

\* line 34
ai_mode_enabled == TRUE

\* lines 1656-1663: the answer of the model is returned as it is, the rules
\* run only when it holds no parameter
ai_result(response, questions, ai) ==
    [parameters |-> IF Assigned(ai.parsed_parameters) = {}
                    THEN _parse_response_by_rules(response, questions)
                    ELSE ai.parsed_parameters,
     skip_remaining |-> ai.skip_remaining]

\* ai: what jiuzhou_manager.analyze_user_response does, raise or return
parse_user_response(response, questions, ai) ==
    IF ai_mode_enabled /\ ~ai.raised
    THEN ai_result(response, questions, ai)
    ELSE [parameters |-> _parse_response_by_rules(response, questions),
          skip_remaining |-> _check_skip_remaining(response)]

---------------------------------------------------------------------------
(* The pure functions, each applied once to an argument drawn at the start *)

conversation_vars ==
    <<parameter_collection_stage, extracted_parameters, stage_retry_count,
      pending_questions, awaiting_clarification, parameter_collection_history,
      clarification_completed, clarification_skipped, main_plan, intent,
      awaiting_intent_confirmation, pending_intent, intent_confirmed,
      uncertainty_results, parse_result, raised, reset_done, last_call,
      skip_phrase_sent>>

\* every map that holds some of the keys of the stages
StageParameterMaps ==
    {[k \in AllParams |-> IF k \in S THEN "given" ELSE Absent] :
        S \in SUBSET (MandatoryParams \cup DeclaredTechnicalParams)}

get_next_collection_stage_calls ==
    {[fn |-> "get_next_collection_stage", current_stage |-> s, extracted_params |-> m] :
        s \in Stages, m \in StageParameterMaps}

Message(role, task) == [role |-> role, task |-> task]

\* the messages logged when the intent of a request is analysed.  The request
\* is the last user message: process_user_input_streaming adds it once, and
\* the WebSocket route has added it once before.  task tells the messages of
\* the earlier task from those of the new request
MessageLogs ==
    {<<Message("user", "new")>>,
     <<Message("user", "earlier"), Message("assistant", "earlier"),
       Message("user", "new")>>,
     <<Message("user", "earlier"), Message("assistant", "earlier"),
       Message("user", "new"), Message("user", "new")>>}

\* the WorkflowStates the intent analysis is applied to; messages is the log
ResetStates ==
    {[stage |-> s, params |-> p, retry |-> r, pending |-> q, awaiting |-> a,
      history |-> h, completed |-> c, skipped |-> k, plan |-> pl, intent |-> "chat",
      awaiting_ic |-> FALSE, pending_intent |-> None, intent_confirmed |-> FALSE,
      msg |-> NoMessage, results |-> NoResults, parse |-> NoParseResult,
      raised |-> FALSE, reset_done |-> FALSE, call |-> "none", messages |-> log,
      latest_plan_request_index |-> -1] :
        s \in Stages,
        p \in {NoParams, [k2 \in AllParams |-> IF k2 \in MandatoryParams
                                               THEN "given" ELSE Absent]},
        r \in {NoRetries, [NoRetries EXCEPT !["purpose"] = 2, !["time"] = 1]},
        q \in {<<>>, <<"monitoring_period">>},
        a \in BOOLEAN,
        h \in {{}, {"purpose", "time"}},
        c \in BOOLEAN, k \in BOOLEAN, pl \in BOOLEAN,
        log \in MessageLogs}

analyze_user_input_streaming_calls ==
    {[fn |-> "analyze_user_input_streaming", st |-> st, new_intent |-> i] :
        st \in ResetStates, i \in Intents}

\* the values a strategy can find in a reply: ke-yi (a bare affirmative of two
\* characters), one character followed by a blank, a word of two characters
FoundValues == {<<"ke", "yi">>, <<"a", " ">>, <<"mei", "zhou">>}

\* the pending questions of a reply, as their parameter_key
QuestionLists == {<<"observation_area">>,
                  <<"observation_frequency", "monitoring_period">>}

\* what one strategy finds for each of the keys asked
Finds(questions, values) ==
    {[k \in ParseKeys |-> IF k \in Range(questions) THEN f[k] ELSE NoValue] :
        f \in [Range(questions) -> values \cup {NoValue}]}

\* the parts of a reply split at its first delimiter
SplitParts == {<<v>> : v \in FoundValues} \cup {<<v, <<"mei", "zhou">> >> : v \in FoundValues}

\* replies without a skip word of the rules
Responses(questions) ==
    {[rule_skip_word |-> FALSE, skip_phrase |-> sp, option_hit |-> o, parts |-> ps,
      labelled |-> l, loose |-> e] :
        sp \in BOOLEAN,
        o \in Finds(questions, FoundValues),
        ps \in SplitParts,
        l \in Finds(questions, {<<"a", " ">>, <<"mei", "zhou">>}),
        e \in Finds(questions, FoundValues)}

\* replies that hold a skip word of the rules, which is a skip phrase too, or
\* hold nothing a strategy finds but the whole text
PlainResponses(questions) ==
    {[rule_skip_word |-> w, skip_phrase |-> sp, option_hit |-> NoParsed,
      parts |-> <<v>>, labelled |-> NoParsed, loose |-> NoParsed] :
        w \in BOOLEAN, sp \in BOOLEAN, v \in {<<"mei", "zhou">>, <<"shi">>}}
    \ {r \in [rule_skip_word : {TRUE}, skip_phrase : {FALSE}, option_hit : {NoParsed},
               parts : {<<v>> : v \in {<<"mei", "zhou">>, <<"shi">>}},
               labelled : {NoParsed}, loose : {NoParsed}] : TRUE}

\* jiuzhou_manager.analyze_user_response holds no parameter, or raises
AiEmpty ==
    {[raised |-> r, parsed_parameters |-> NoParsed, skip_remaining |-> sk] :
        r \in BOOLEAN, sk \in BOOLEAN} \ {[raised |-> TRUE, parsed_parameters |-> NoParsed,
                                           skip_remaining |-> TRUE]}

\* the JSON object of the model holds one key: any key, with any value
AiAnswers ==
    {[raised |-> FALSE, parsed_parameters |-> [NoParsed EXCEPT ![k] = v],
      skip_remaining |-> sk] :
        k \in ParseKeys, v \in FoundValues \cup {<<"shi">>}, sk \in BOOLEAN}

\* the reply is drawn when the function is called
NoResponse == [rule_skip_word |-> FALSE, skip_phrase |-> FALSE, option_hit |-> NoParsed,
               parts |-> <<>>, labelled |-> NoParsed, loose |-> NoParsed]

parse_user_response_calls ==
    {[fn |-> "parse_user_response", response |-> NoResponse, questions |-> q, ai |-> a] :
        q \in QuestionLists, a \in AiEmpty \cup AiAnswers}

\* the replies a call is checked with: the strategies of the rules matter only
\* when the answer of the model holds no parameter
RepliesFor(questions, ai) ==
    IF ai \in AiEmpty THEN Responses(questions) \cup PlainResponses(questions)
    ELSE PlainResponses(questions)

---------------------------------------------------------------------------
(* Calls of the uncertainty calculator                                     *)

\* what one call of a collaborator that can fail (web search, LLM) comes to
Outcomes == {"yes", "no", "failed"}

_check_web_search_failure_passes(outcome) == outcome # "no"

\* True only when a search result holds a relevant keyword; an exception
\* inside the search returns False
_check_web_search(outcome) == outcome = "yes"

\* True only when the model answers yes; a missing API key, a status other
\* than 200 and an exception return False
_check_llm_professional(outcome) == outcome = "yes"

\* _check_frequency_with_llm, _check_period_with_llm, _check_area_with_llm
\* and _check_range_with_llm: the same code with another prompt
_check_with_llm(outcome) == outcome = "yes"

TargetKeys == {"monitoring_target"}

TimeKeys == {"observation_frequency", "monitoring_period"}

LocationKeys == {"observation_area", "coverage_range"}

\* texts of a scored parameter: no value, the empty string, only whitespace,
\* and a text with content
GateTexts == {Absent, "", " ", "text"}

calculate_monitoring_target_uncertainty_calls ==
    [fn : {"calculate_monitoring_target_uncertainty"},
     texts : [TargetKeys -> GateTexts],
     enable_web_search : BOOLEAN, enable_llm : BOOLEAN,
     kb : BOOLEAN, web : Outcomes, llm : Outcomes]

calculate_time_uncertainty_calls ==
    [fn : {"calculate_time_uncertainty"},
     texts : [TimeKeys -> GateTexts],
     enable_llm : BOOLEAN,
     fmt : [TimeKeys -> BOOLEAN], llm : [TimeKeys -> Outcomes]]

calculate_location_uncertainty_calls ==
    [fn : {"calculate_location_uncertainty"},
     texts : [LocationKeys -> GateTexts],
     enable_llm : BOOLEAN,
     fmt : [LocationKeys -> BOOLEAN], llm : [LocationKeys -> Outcomes]]

CalculatorFns ==
    {"calculate_monitoring_target_uncertainty", "calculate_time_uncertainty",
     "calculate_location_uncertainty"}

\* the three signals of a monitoring_target scoring: a collaborator that is
\* switched off is not called and its signal stays False
target_signals(call) ==
    [kb  |-> call.kb,
     web |-> call.enable_web_search /\ _check_web_search(call.web),
     llm |-> call.enable_llm /\ _check_llm_professional(call.llm)]

\* the two signals of a structural scoring
structural_signals(call) ==
    [k \in DOMAIN call.texts |->
        [fmt |-> call.fmt[k], llm |-> call.enable_llm /\ _check_with_llm(call.llm[k])]]

\* the results of one call, by scored key
calculator_results(call) ==
    CASE call.fn = "calculate_monitoring_target_uncertainty" ->
            [k \in TargetKeys |->
                calculate_monitoring_target_uncertainty(call.texts[k], target_signals(call))]
      [] call.fn = "calculate_time_uncertainty" ->
            calculate_time_uncertainty(call.texts.observation_frequency,
                                       call.texts.monitoring_period,
                                       structural_signals(call))
      [] call.fn = "calculate_location_uncertainty" ->
            calculate_location_uncertainty(call.texts.observation_area,
                                           call.texts.coverage_range,
                                           structural_signals(call))

\* the collaborators the scoring of a monitoring_target calls
target_consulted(target_text, enable_web_search, enable_llm) ==
    IF NotExists(target_text) THEN {}
    ELSE {"_check_knowledge_base"}
            \cup (IF enable_web_search THEN {"_check_web_search"} ELSE {})
            \cup (IF enable_llm THEN {"_check_llm_professional"} ELSE {})

\* the collaborators the scoring of a structural parameter calls: the format
\* checks, and the LLM only when they fail
structural_consulted(text, valid_format, enable_llm) ==
    IF NotExists(text) THEN {}
    ELSE {"format_check"}
            \cup (IF enable_llm /\ ~valid_format THEN {"check_with_llm"} ELSE {})

\* the collaborators one call consults, by scored key
calculator_consulted(call) ==
    [k \in DOMAIN call.texts |->
        IF call.fn = "calculate_monitoring_target_uncertainty"
        THEN target_consulted(call.texts[k], call.enable_web_search, call.enable_llm)
        ELSE structural_consulted(call.texts[k], call.fmt[k], call.enable_llm)]

\* the parameter maps apply_smart_defaults is applied to: each of the keys it
\* can assign, and the two it reads, missing, empty or given
DefaultsMaps ==
    {[k \in AllParams |-> IF k \in DOMAIN m THEN m[k] ELSE Absent] :
        m \in [monitoring_target : {Absent, "water_quality"},
               observation_area : {Absent, "", "qinghai_lake"},
               coverage_range : {Absent, "", "100_km2"},
               spatial_resolution : {Absent, "given"},
               output_format : {Absent, "", "given"},
               spectral_bands : {Absent, "given"}]}

apply_smart_defaults_calls ==
    {[fn |-> "apply_smart_defaults", params |-> m] : m \in DefaultsMaps}

FnCalls ==
    get_next_collection_stage_calls \cup apply_smart_defaults_calls \cup analyze_user_input_streaming_calls
        \cup parse_user_response_calls
        \cup calculate_monitoring_target_uncertainty_calls
        \cup calculate_time_uncertainty_calls
        \cup calculate_location_uncertainty_calls

FnInit ==
    /\ Init!1 /\ Init!2 /\ Init!3 /\ Init!4 /\ Init!5 /\ Init!6 /\ Init!7 /\ Init!8
    /\ Init!9 /\ Init!10 /\ Init!11 /\ Init!12 /\ Init!13 /\ Init!14 /\ Init!15
    /\ Init!16 /\ Init!17 /\ Init!18
    /\ fn_in \in FnCalls
    /\ fn_out = NoReturn
    /\ Init!21 /\ Init!22 /\ Init!23 /\ Init!24

call_get_next_collection_stage ==
    /\ fn_in.fn = "get_next_collection_stage"
    /\ ~fn_out.done
    /\ fn_out' = [done |-> TRUE,
                  value |-> get_next_collection_stage(fn_in.current_stage,
                                                      fn_in.extracted_params)]
    /\ UNCHANGED <<fn_in, conversation_vars, stream_vars, crawl_job>>

call_analyze_user_input_streaming ==
    /\ fn_in.fn = "analyze_user_input_streaming"
    /\ ~fn_out.done
    /\ fn_out' = [done |-> TRUE,
                  value |-> analyze_user_input_streaming(fn_in.st, fn_in.new_intent)]
    /\ UNCHANGED <<fn_in, conversation_vars, stream_vars, crawl_job>>

call_parse_user_response ==
    /\ fn_in.fn = "parse_user_response"
    /\ ~fn_out.done
    /\ \E response \in RepliesFor(fn_in.questions, fn_in.ai) :
          /\ fn_in' = [fn_in EXCEPT !.response = response]
          /\ fn_out' = [done |-> TRUE,
                        value |-> parse_user_response(response, fn_in.questions, fn_in.ai)]
    /\ UNCHANGED <<conversation_vars, stream_vars, crawl_job>>

call_uncertainty_calculator ==
    /\ fn_in.fn \in CalculatorFns
    /\ ~fn_out.done
    /\ fn_out' = [done |-> TRUE,
                  value |-> [results |-> calculator_results(fn_in),
                             consulted |-> calculator_consulted(fn_in)]]
    /\ UNCHANGED <<fn_in, conversation_vars, stream_vars, crawl_job>>

call_apply_smart_defaults ==
    /\ fn_in.fn = "apply_smart_defaults"
    /\ ~fn_out.done
    /\ fn_out' = [done |-> TRUE, value |-> apply_smart_defaults(fn_in.params)]
    /\ UNCHANGED <<fn_in, conversation_vars, stream_vars, crawl_job>>

FnNext ==
    \/ call_get_next_collection_stage
    \/ call_apply_smart_defaults
    \/ call_analyze_user_input_streaming
    \/ call_parse_user_response
    \/ call_uncertainty_calculator

FnSpec == FnInit /\ [][FnNext]_vars

---------------------------------------------------------------------------
(* The fixed order of the stages                                           *)

full_order ==
    <<"not_started", "purpose", "time", "location_area", "location_range",
      "technical", "completed">>

StageRank(stage) == IndexOf(full_order, stage)

\* C5: for every current stage and every parameter map,
\* get_next_collection_stage returns None or a stage strictly later than the
\* current one in the fixed order, and None from technical and from completed
C5_NextStageIsLaterOrNone ==
    (fn_in.fn = "get_next_collection_stage" /\ fn_out.done) =>
        /\ \/ fn_out.value = None
           \/ /\ fn_out.value \in Stages
              /\ StageRank(fn_out.value) > StageRank(fn_in.current_stage)
        /\ fn_in.current_stage \in {"technical", "completed"} => fn_out.value = None

\* a call from a middle stage whose later stages lack keys returned a stage
C5_Witness ==
    /\ fn_in.fn = "get_next_collection_stage" /\ fn_out.done
    /\ fn_in.current_stage = "time"
    /\ fn_in.extracted_params["observation_area"] # Absent
    /\ fn_in.extracted_params["monitoring_target"] = Absent
    /\ fn_out.value = "location_range"

---------------------------------------------------------------------------
(* Properties of the conversation                                          *)

MandatoryStages == {stage \in CollectingStages : COLLECTION_STAGES[stage].required}

StageKeys(stage) == Range(COLLECTION_STAGES[stage].params)

\* the stage whose keys a scoring result holds
ScoredStages(results) == {stage \in CollectingStages : DOMAIN results \cap StageKeys(stage) # {}}

\* the retry counters a call starts from: the reset of the turn empties the map
RetryBefore(was_reset, counts) == IF was_reset THEN NoRetries ELSE counts

\* C1: every call of process_staged_parameter_clarification or
\* process_staged_clarification_response raises nothing and ends with questions
\* pending and awaiting_clarification true, or with the stage completed
C1_NeverStall ==
    last_call \in {"P", "R"} =>
        /\ ~raised
        /\ \/ pending_questions # <<>> /\ awaiting_clarification
           \/ parameter_collection_stage = "completed"

\* C2: when a stage with max_retries = 2 is scored with a clarify verdict, the
\* scoring at retry count 0 or 1 raises the counter by one and asks again for
\* every flagged key; the scoring at retry count 2 leaves the counter, asks
\* nothing of that stage and moves to a later stage or to completed
C2_TwoRetriesThenForceAccept ==
    [][\A stage \in CollectingStages :
          (/\ COLLECTION_STAGES[stage].max_retries = 2
           /\ last_call' \in {"P", "R"}
           /\ stage \in ScoredStages(uncertainty_results')
           /\ NeedsClarification(uncertainty_results') # {})
          => IF RetryBefore(reset_done', stage_retry_count)[stage] < 2
             THEN /\ stage_retry_count'[stage] =
                         RetryBefore(reset_done', stage_retry_count)[stage] + 1
                  /\ parameter_collection_stage' = stage
                  /\ awaiting_clarification'
                  /\ NeedsClarification(uncertainty_results') \subseteq Range(pending_questions')
             ELSE /\ stage_retry_count'[stage] = 2
                  /\ StageRank(parameter_collection_stage') > StageRank(stage)
                  /\ Range(pending_questions') \cap StageKeys(stage) = {}]_vars

\* the third scoring of the purpose stage, still with a clarify verdict, has
\* moved the conversation to the time stage
C2_Witness ==
    /\ last_call = "R"
    /\ stage_retry_count["purpose"] = 2
    /\ "monitoring_target" \in NeedsClarification(uncertainty_results)
    /\ parameter_collection_stage = "time"
    /\ awaiting_clarification

\* C3: no retry counter decreases from one turn to the next, except in the
\* turn whose intent analysis finds a generate_plan request while a plan
\* exists, the task-boundary reset, which empties the map
C3_RetryCountMonotone ==
    [][/\ (\E stage \in CollectingStages :
              stage_retry_count'[stage] < stage_retry_count[stage])
          => (reset_done' /\ main_plan /\ intent' = "generate_plan")
       /\ ~reset_done' => \A stage \in CollectingStages :
                              stage_retry_count'[stage] >= stage_retry_count[stage]]_vars

\* the reset of a second task has emptied the map and the purpose stage of the
\* new task was retried once in the same turn
C3_Witness ==
    /\ reset_done /\ main_plan
    /\ stage_retry_count = [NoRetries EXCEPT !["purpose"] = 1]
    /\ parameter_collection_stage = "purpose"

\* C4: without a task-boundary reset the stage never moves to an earlier stage
\* of the fixed order, and from completed it stays completed with no question
\* pending
C4_StageOnlyForward ==
    [][~reset_done' =>
          /\ StageRank(parameter_collection_stage') >= StageRank(parameter_collection_stage)
          /\ parameter_collection_stage = "completed" =>
                 /\ parameter_collection_stage' = "completed"
                 /\ pending_questions' = <<>>
                 /\ ~awaiting_clarification']_vars

\* a completed collection whose plan was generated, with later chat turns
C4_Witness ==
    /\ parameter_collection_stage = "completed"
    /\ main_plan
    /\ intent = "chat"
    /\ "technical" \in parameter_collection_history
    /\ ~reset_done

C7_VocabularyHitAccepted ==
    [][(/\ parameter_collection_stage = "purpose"
        /\ awaiting_clarification
        /\ "monitoring_target" \in Range(pending_questions)
        /\ last_call' = "R"
        /\ "monitoring_target" \in parse_result'.parsed_params
        /\ ~parse_result'.skip_remaining
        /\ "monitoring_target" \in DOMAIN uncertainty_results'
        /\ uncertainty_results'["monitoring_target"].knowledge_base_match)
       => /\ uncertainty_results'["monitoring_target"].uncertainty_score = 2
          /\ ~uncertainty_results'["monitoring_target"].needs_clarification
          /\ parameter_collection_stage' = "time"]_vars

\* C8: when the parser reports skip_remaining while a question of a mandatory
\* stage is pending, the turn raises nothing, fills every key of the stage,
\* leaves the stage, asks no question of it again and does not raise its
\* retry counter
C8_SkipRemainingForceAccepts ==
    [][(/\ parameter_collection_stage \in MandatoryStages
        /\ awaiting_clarification
        /\ pending_questions # <<>>
        /\ last_call' = "R"
        /\ parse_result'.skip_remaining)
       => /\ ~raised'
          /\ \A k \in StageKeys(parameter_collection_stage) :
                 extracted_parameters'[k] # Absent
          /\ StageRank(parameter_collection_stage') > StageRank(parameter_collection_stage)
          /\ Range(pending_questions') \cap StageKeys(parameter_collection_stage) = {}
          /\ stage_retry_count'[parameter_collection_stage] =
                 stage_retry_count[parameter_collection_stage]]_vars

\* C9: when a reply that asks for no skip assigns nothing to a pending, unset
\* key of a mandatory stage whose retry counter is below its maximum, the key
\* stays unset, the stage stays the same, its retry counter is raised by one
\* and the key is asked again
C9_ParserFailureCountsAsRetry ==
    [][\A stage \in MandatoryStages : \A k \in StageKeys(stage) :
          (/\ parameter_collection_stage = stage
           /\ awaiting_clarification
           /\ k \in Range(pending_questions)
           /\ extracted_parameters[k] = Absent
           /\ stage_retry_count[stage] < COLLECTION_STAGES[stage].max_retries
           /\ last_call' = "R"
           /\ k \notin parse_result'.parsed_params
           /\ ~parse_result'.skip_remaining
           /\ ~clarification_skipped')
          => /\ extracted_parameters'[k] = Absent
             /\ parameter_collection_stage' = stage
             /\ stage_retry_count'[stage] = stage_retry_count[stage] + 1
             /\ awaiting_clarification'
             /\ k \in Range(pending_questions')]_vars

\* C10: whenever the stage is completed, a reply to technical questions was
\* recorded before: the stage was technical with technical questions pending
C10_TechnicalAlwaysVisited ==
    parameter_collection_stage = "completed" =>
        "technical" \in parameter_collection_history

\* C11: a reply while technical questions are pending, whatever it assigns and
\* whether or not it asks to skip, ends with the stage completed and nothing
\* pending; once a reply to technical questions is recorded, no technical
\* question is pending again before the next task-boundary reset
C11_TechnicalConvergesAfterOneReply ==
    [][/\ (parameter_collection_stage = "technical" /\ awaiting_clarification)
          => /\ last_call' = "R"
             /\ ~raised'
             /\ parameter_collection_stage' = "completed"
             /\ pending_questions' = <<>>
             /\ ~awaiting_clarification'
       /\ ("technical" \in parameter_collection_history /\ ~reset_done')
          => ~(parameter_collection_stage' = "technical" /\ awaiting_clarification')]_vars

\* a reply that assigned nothing and asked for no skip ended the technical stage
C11_Witness ==
    /\ last_call = "R"
    /\ parse_result = NoParseResult
    /\ parameter_collection_stage = "completed"
    /\ "technical" \in parameter_collection_history
    /\ ~clarification_skipped
    /\ extracted_parameters["spectral_bands"] = Absent

C13_PendingKeysOfActiveStage ==
    pending_questions # <<>> =>
        /\ parameter_collection_stage \in CollectingStages
        /\ \A i \in DOMAIN pending_questions :
              /\ pending_questions[i] \in StageKeys(parameter_collection_stage)
              /\ \/ extracted_parameters[pending_questions[i]] = Absent
                 \/ pending_questions[i] \in NeedsClarification(uncertainty_results)
              /\ \A j \in DOMAIN pending_questions :
                    pending_questions[j] = pending_questions[i] => j = i

\* C14: from any state, the intent analysis of a generate_plan request while a
\* plan exists leaves the stage not_started, the parameter map empty, every
\* retry counter zero, the collection history empty, no pending question and
\* awaiting_clarification false, and the message log as it was
C14_ResetClearsCollection ==
    (/\ fn_in.fn = "analyze_user_input_streaming" /\ fn_out.done
     /\ fn_in.new_intent = "generate_plan" /\ fn_in.st.plan)
    => /\ fn_out.value.stage = "not_started"
       /\ fn_out.value.params = NoParams
       /\ fn_out.value.retry = NoRetries
       /\ fn_out.value.history = {}
       /\ fn_out.value.pending = <<>>
       /\ ~fn_out.value.awaiting
       /\ fn_out.value.messages = fn_in.st.messages

\* the reset was applied in the time stage with a question pending, retries
\* counted and two stages recorded
C14_Witness ==
    /\ fn_in.fn = "analyze_user_input_streaming" /\ fn_out.done
    /\ fn_in.new_intent = "generate_plan" /\ fn_in.st.plan
    /\ fn_in.st.stage = "time" /\ fn_in.st.awaiting
    /\ fn_in.st.pending # <<>> /\ fn_in.st.retry # NoRetries
    /\ fn_in.st.history # {} /\ fn_in.st.params # NoParams
    /\ Len(fn_in.st.messages) = 3
    /\ fn_out.value.stage = "not_started"

---------------------------------------------------------------------------
(* Properties of parse_user_response                                       *)

\* C15: every key that parse_user_response returns in parameters is the
\* parameter_key of one of the pending questions
C15_ParsedKeysArePending ==
    (fn_in.fn = "parse_user_response" /\ fn_out.done) =>
        Assigned(fn_out.value.parameters) \subseteq Range(fn_in.questions)

\* C16: whenever the reply holds one of the skip phrases, parse_user_response
\* returns skip_remaining true
C16_SkipPhraseGivesSkipRemaining ==
    (fn_in.fn = "parse_user_response" /\ fn_out.done /\ fn_in.response.skip_phrase) =>
        fn_out.value.skip_remaining

\* C17: no value that parse_user_response returns is shorter than two
\* characters or a bare affirmative or negative
C17_NoShortOrBareValue ==
    (fn_in.fn = "parse_user_response" /\ fn_out.done) =>
        \A k \in Assigned(fn_out.value.parameters) :
            /\ Len(fn_out.value.parameters[k]) >= 2
            /\ fn_out.value.parameters[k] \notin Affirmatives


---------------------------------------------------------------------------
(* Properties of the uncertainty calculator                                *)

RaisedTarget(call) ==
    (IF call.kb THEN {} ELSE {[call EXCEPT !.kb = TRUE]})
        \cup (IF call.web = "yes" THEN {} ELSE {[call EXCEPT !.web = "yes"]})
        \cup (IF call.llm = "yes" THEN {} ELSE {[call EXCEPT !.llm = "yes"]})

RaisedStructural(call) ==
    {[call EXCEPT !.fmt[k] = TRUE] : k \in {j \in DOMAIN call.texts : ~call.fmt[j]}}
        \cup {[call EXCEPT !.llm[k] = "yes"] :
                k \in {j \in DOMAIN call.texts : call.llm[j] # "yes"}}

Raised(call) ==
    IF call.fn = "calculate_monitoring_target_uncertainty"
    THEN RaisedTarget(call) ELSE RaisedStructural(call)

Accepted(call) ==
    {k \in DOMAIN call.texts : ~calculator_results(call)[k].needs_clarification}

\* C19: for every parameter kind and every pair of signal vectors that differ
\* by one signal going from false to true, a value accepted with the first
\* vector is accepted with the second
C19_GateMonotonic ==
    (fn_in.fn \in CalculatorFns /\ fn_out.done) =>
        \A higher \in Raised(fn_in) :
            \A k \in DOMAIN fn_in.texts :
                ~fn_out.value.results[k].needs_clarification => k \in Accepted(higher)

\* a monitoring_target accepted on the LLM signal alone, with the web search
\* still to be raised
C19_Witness ==
    /\ fn_in.fn = "calculate_monitoring_target_uncertainty"
    /\ fn_out.done
    /\ fn_in.texts.monitoring_target = "text"
    /\ ~fn_in.kb /\ fn_in.enable_web_search /\ fn_in.web = "no"
    /\ fn_in.enable_llm /\ fn_in.llm = "yes"
    /\ ~fn_out.value.results.monitoring_target.needs_clarification
    /\ [fn_in EXCEPT !.web = "yes"] \in Raised(fn_in)

\* C20: for each of the five scored kinds, a value that is absent, empty or
\* only whitespace scores 10 tenths with needs_clarification true, and no
\* collaborator is consulted for it
C20_MissingValueScoresOne ==
    (fn_in.fn \in CalculatorFns /\ fn_out.done) =>
        \A k \in DOMAIN fn_in.texts :
            fn_in.texts[k] \in {Absent, "", " "} =>
                /\ fn_out.value.results[k].uncertainty_score = 10
                /\ fn_out.value.results[k].needs_clarification
                /\ fn_out.value.consulted[k] = {}

\* a whitespace-only frequency whose signals all say yes, next to a period
\* with content that is scored by its collaborators
C20_Witness ==
    /\ fn_in.fn = "calculate_time_uncertainty"
    /\ fn_out.done
    /\ fn_in.texts.observation_frequency = " "
    /\ fn_in.fmt.observation_frequency
    /\ fn_in.enable_llm /\ fn_in.llm.observation_frequency = "yes"
    /\ fn_in.texts.monitoring_period = "text"
    /\ fn_out.value.consulted.monitoring_period # {}
    /\ fn_out.value.results.observation_frequency.uncertainty_score = 10


---------------------------------------------------------------------------
(* The generation request as a state machine                               *)

BufferInit ==
    /\ Init!1 /\ Init!2 /\ Init!3 /\ Init!4 /\ Init!5 /\ Init!6 /\ Init!7 /\ Init!8
    /\ Init!9 /\ Init!10 /\ Init!11 /\ Init!12 /\ Init!13 /\ Init!14 /\ Init!15
    /\ Init!16 /\ Init!17 /\ Init!18 /\ Init!19 /\ Init!20
    /\ content_buffer \in {StreamingContentBuffer(size) : size \in MinChunkSizes}
    /\ request \in {Request(stream, "streaming") : stream \in Streams}
    /\ Init!23 /\ Init!24

\* one delta of the response: "await content_buffer.add_content(content_chunk)"
receive_content ==
    /\ request.status = "streaming"
    /\ request.delivered < Len(request.stream.pieces)
    /\ \E upto \in (request.delivered + 1)..Len(request.stream.pieces), elapsed \in BOOLEAN :
          /\ content_buffer' = add_content(content_buffer, Fragment(request, upto), elapsed)
          /\ request' = [request EXCEPT !.delivered = upto, !.fragments = @ + 1]
    /\ UNCHANGED <<conversation_vars, fn_in, fn_out, crawl_job>>

\* the response ends: "await content_buffer.flush()" and the return
stream_end ==
    /\ request.status = "streaming"
    /\ request.delivered = Len(request.stream.pieces)
    /\ content_buffer' = flush(content_buffer)
    /\ request' = [request EXCEPT !.status = "returned", !.flushed = TRUE]
    /\ UNCHANGED <<conversation_vars, fn_in, fn_out, crawl_job>>

\* a status other than 200, a timeout or an error while the response is read:
\* the except clauses return the error
stream_error ==
    /\ request.status = "streaming"
    /\ request' = [request EXCEPT !.status = "failed"]
    /\ UNCHANGED <<content_buffer, conversation_vars, fn_in, fn_out, crawl_job>>

\* the task of the request is cancelled: CancelledError leaves the function
stream_cancelled ==
    /\ request.status = "streaming"
    /\ request' = [request EXCEPT !.status = "cancelled"]
    /\ UNCHANGED <<content_buffer, conversation_vars, fn_in, fn_out, crawl_job>>

BufferNext ==
    \/ receive_content
    \/ stream_end
    \/ stream_error
    \/ stream_cancelled

BufferSpec == BufferInit /\ [][BufferNext]_vars


---------------------------------------------------------------------------
(* Properties of the content buffer                                        *)

Contents(chunks) == [i \in 1..Len(chunks) |-> chunks[i].content]

\* C21: after the fragments of a stream were fed and flush was called, the
\* contents of the emitted chunks, joined in the order of emission, are the
\* normalised fragments joined in the order they were fed
C21_RoundTrip ==
    request.flushed => Concat(Contents(content_buffer.emitted)) = content_buffer.full_content

\* C22: the four fragments of the scenario followed by flush make the buffer
\* emit one table chunk with the three table lines and then one ordinary
\* chunk 'next paragraph'
C22_ScenarioTwoChunks ==
    (/\ request.stream = ScenarioStream
     /\ request.fragments = 4
     /\ request.flushed) =>
        content_buffer.emitted =
            <<Chunk(ScenarioStream.table, TRUE), Chunk(NextParagraph, FALSE)>>

\* C23: when a stream with a table was fed in any fragmentation and flushed,
\* one single emitted chunk is flagged is_table, it holds every row of the
\* table, header included, and no table row is in a chunk that is not flagged
C23_TableAtomic ==
    (request.flushed /\ request.stream \in {TableStream, TableBreakStream}) =>
        /\ \E i \in 1..Len(content_buffer.emitted) :
              /\ content_buffer.emitted[i].is_table
              /\ Contains(content_buffer.emitted[i].content, request.stream.table)
              /\ \A j \in 1..Len(content_buffer.emitted) :
                    content_buffer.emitted[j].is_table => j = i
        /\ \A i \in 1..Len(content_buffer.emitted) :
              ~content_buffer.emitted[i].is_table =>
                  ~Contains(content_buffer.emitted[i].content, <<"|">>)

\* C24: however the request ends, flush was called before it returned, and
\* nothing that was fed is left in the buffers
C24_FlushOnEveryEnd ==
    (request.status \in {"returned", "failed", "cancelled"} /\ request.fragments > 0) =>
        /\ request.flushed
        /\ content_buffer.buffer = <<>>
        /\ content_buffer.table_buffer = <<>>


---------------------------------------------------------------------------
(* Properties of the task boundary                                         *)

\* C26: after the reset of a new plan request has called
\* mark_new_plan_request, get_messages_since_latest_plan_request returns the
\* messages from the user message that made the request on, and no user
\* message of the earlier task is among them
C26_MessagesSinceRequest ==
    (/\ fn_in.fn = "analyze_user_input_streaming" /\ fn_out.done
     /\ fn_in.new_intent = "generate_plan" /\ fn_in.st.plan)
    => /\ get_messages_since_latest_plan_request(fn_out.value) # <<>>
       /\ Head(get_messages_since_latest_plan_request(fn_out.value))
              = Message("user", "new")
       /\ \A i \in 1..Len(get_messages_since_latest_plan_request(fn_out.value)) :
              get_messages_since_latest_plan_request(fn_out.value)[i]
                  # Message("user", "earlier")


---------------------------------------------------------------------------
(* save_state and load_state (workflow_streaming.py)                       *)

\* WorkflowState(): the defaults of the fields of a new state
WorkflowState ==
    [stage |-> "not_started", params |-> NoParams, retry |-> NoRetries,
     pending |-> <<>>, awaiting |-> FALSE, history |-> {},
     completed |-> FALSE, skipped |-> FALSE, plan |-> FALSE, intent |-> "unknown",
     awaiting_ic |-> FALSE, pending_intent |-> None, intent_confirmed |-> FALSE,
     msg |-> NoMessage, results |-> NoResults, parse |-> NoParseResult,
     raised |-> FALSE, reset_done |-> FALSE, call |-> "none",
     messages |-> <<>>, latest_plan_request_index |-> -1]

\* the dictionary written to the file: the messages, the metadata and the
\* plan (conversation_id, thinking_steps, current_stage, alternative_plans
\* and retrieved_knowledge are written as well and are not modelled)
save_state(st) ==
    [messages |-> st.messages,
     metadata |-> [extracted_parameters |-> st.params,
                   pending_questions |-> st.pending,
                   awaiting_clarification |-> st.awaiting,
                   clarification_completed |-> st.completed,
                   clarification_skipped |-> st.skipped,
                   intent |-> st.intent],
     main_plan |-> st.plan]

\* a new WorkflowState built from the fields of the file; the messages are
\* added again one by one
load_state(state_dict) ==
    [WorkflowState EXCEPT
        !.messages = state_dict.messages,
        !.params = state_dict.metadata.extracted_parameters,
        !.pending = state_dict.metadata.pending_questions,
        !.awaiting = state_dict.metadata.awaiting_clarification,
        !.completed = state_dict.metadata.clarification_completed,
        !.skipped = state_dict.metadata.clarification_skipped,
        !.intent = state_dict.metadata.intent,
        !.plan = state_dict.main_plan]

\* C25: for every reachable conversation state, the state loaded from its
\* saved file has the same collection stage, retry counters, parameter map,
\* pending questions, awaiting flag, message log and plan-request marker
C25_PersistenceRoundTrip ==
    /\ load_state(save_state(State(NoMessage))).stage = parameter_collection_stage
    /\ load_state(save_state(State(NoMessage))).retry = stage_retry_count
    /\ load_state(save_state(State(NoMessage))).params = extracted_parameters
    /\ load_state(save_state(State(NoMessage))).pending = pending_questions
    /\ load_state(save_state(State(NoMessage))).awaiting = awaiting_clarification
    /\ load_state(save_state(State(NoMessage))).messages = State(NoMessage).messages
    /\ load_state(save_state(State(NoMessage))).latest_plan_request_index
           = State(NoMessage).latest_plan_request_index


---------------------------------------------------------------------------
(* One crawl job as a state machine                                        *)

CrawlerInit ==
    /\ Init!1 /\ Init!2 /\ Init!3 /\ Init!4 /\ Init!5 /\ Init!6 /\ Init!7 /\ Init!8
    /\ Init!9 /\ Init!10 /\ Init!11 /\ Init!12 /\ Init!13 /\ Init!14 /\ Init!15
    /\ Init!16 /\ Init!17 /\ Init!18 /\ Init!19 /\ Init!20 /\ Init!21 /\ Init!22
    /\ Init!24
    /\ crawl_job \in CrawlJobs

\* execute_crawl_job up to the call of _execute_workflow
execute_crawl_job ==
    /\ crawl_job.status = "pending"
    /\ crawl_job' = [crawl_job EXCEPT !.status = "running",
                                      !.current_node = workflow_graph["START"]]
    /\ UNCHANGED <<conversation_vars, fn_in, fn_out, stream_vars>>

\* one pass of the loop of _execute_workflow; the progress callback may raise
_execute_workflow ==
    /\ crawl_job.status = "running"
    /\ crawl_job.current_node # "END"
    /\ crawl_job.error_handler_runs < MaxHandlerRuns
    /\ \/ /\ crawl_job.progress_callback
          /\ crawl_job' = workflow_failed(crawl_job)
       \/ \E fails \in BOOLEAN, data \in 0..MaxCrawled :
             crawl_job' = next_node(execute_node(crawl_job, fails, data),
                                    crawl_job.current_node)
    /\ UNCHANGED <<conversation_vars, fn_in, fn_out, stream_vars>>

\* _execute_workflow returned: the job is completed or failed
crawl_job_finished ==
    /\ crawl_job.status = "running"
    /\ crawl_job.current_node = "END"
    /\ crawl_job' = [crawl_job EXCEPT
                        !.status = IF crawl_job.error_occurred THEN "failed"
                                   ELSE "completed"]
    /\ UNCHANGED <<conversation_vars, fn_in, fn_out, stream_vars>>

CrawlerNext ==
    \/ execute_crawl_job
    \/ _execute_workflow
    \/ crawl_job_finished

CrawlerSpec == CrawlerInit /\ [][CrawlerNext]_vars

\* C27: a run follows the nodes of the graph to END, and when a node sets
\* error_occurred the error handler runs exactly once and the run goes to END
C27_ErrorHandlerOnceThenEnd ==
    crawl_job.error_handler_runs >= 1 =>
        /\ crawl_job.error_handler_runs = 1
        /\ crawl_job.current_node = "END"


\* C28: after every turn each retry counter is at most the max_retries of its
\* stage (2 for the four mandatory stages), the counter of the technical stage
\* is 0, and a turn that asks again in the stage it started in has raised the
\* counter of that stage by one, so a stage asks in at most 1 + max_retries turns
C28_RetryBounded ==
    [][/\ \A stage \in CollectingStages :
             stage_retry_count'[stage] <= COLLECTION_STAGES[stage].max_retries
       /\ \A stage \in MandatoryStages : stage_retry_count'[stage] <= 2
       /\ stage_retry_count'["technical"] = 0
       /\ \A stage \in CollectingStages :
             (/\ parameter_collection_stage = stage
              /\ parameter_collection_stage' = stage
              /\ awaiting_clarification
              /\ last_call' \in {"P", "R"}
              /\ ~reset_done'
              /\ awaiting_clarification'
              /\ pending_questions' # <<>>)
             => stage_retry_count'[stage] = stage_retry_count[stage] + 1]_vars

\* the time stage has asked three times: its counter stands at its limit of 2
\* and its questions are pending
C28_Witness ==
    /\ last_call = "R"
    /\ parameter_collection_stage = "time"
    /\ stage_retry_count["time"] = 2
    /\ stage_retry_count["purpose"] = 2
    /\ awaiting_clarification
    /\ pending_questions # <<>>


\* the keys of the required stages
RequiredStageKeys == UNION {StageKeys(stage) : stage \in MandatoryStages}

\* C29: whenever the stage is completed and no message of the task was a skip
\* phrase, extracted_parameters holds a non-empty value for every key of every
\* required stage
C29_CompletedHoldsRequiredKeys ==
    (parameter_collection_stage = "completed" /\ ~skip_phrase_sent
         /\ ~clarification_skipped)
    => \A k \in RequiredStageKeys : ~NotExists(extracted_parameters[k])


\* C30: for every parameter map, apply_smart_defaults returns a map in which
\* every key that was present keeps its value, and every key that it added is
\* coverage_range or a technical key
C30_DefaultsOnlyAdd ==
    (fn_in.fn = "apply_smart_defaults" /\ fn_out.done) =>
        /\ \A k \in Present(fn_in.params) : fn_out.value[k] = fn_in.params[k]
        /\ \A k \in Present(fn_out.value) \ Present(fn_in.params) :
              k = "coverage_range" \/ k \notin MandatoryParams

\* a map that holds a coverage range and a resolution but no output format:
\* the two given values are kept next to the default of the output format
C30_Witness ==
    /\ fn_in.fn = "apply_smart_defaults" /\ fn_out.done
    /\ fn_in.params["observation_area"] = "qinghai_lake"
    /\ fn_in.params["coverage_range"] = "100_km2"
    /\ fn_in.params["spatial_resolution"] = "given"
    /\ fn_in.params["output_format"] = Absent
    /\ fn_out.value["coverage_range"] = "100_km2"
    /\ fn_out.value["spatial_resolution"] = "given"
    /\ fn_out.value["output_format"] = "default"

====
